---------------------------- MODULE Spec2Model ----------------------------
(***************************************************************************)
(* Model of the stock synchronisation engine (SyncService) of              *)
(* ensovo-stock-sync: two Shopify stores, a Redis state store, inbound     *)
(* inventory webhooks, the debounce table and the delta/full               *)
(* reconciliation.  The latest revision of the engine                      *)
(* (src/unnamed/part_001) is the one modelled.                             *)
(*                                                                         *)
(* Granularity.  Node runs one task at a time between awaits, so an action *)
(* is the code between two suspension points together with the one Redis   *)
(* or adapter operation it ends in.  Awaits whose order against other      *)
(* tasks cannot be observed are taken in one action: the lock check and    *)
(* the catalog lookup of a handler; the snapshot write of a handler and    *)
(* the debounce call that follows its reply (the Redis client is one       *)
(* connection, replies come back in the order of the commands); the target *)
(* lookup and the lock write of a reconciliation; its snapshot write and   *)
(* its log entry.  Time is abstracted: a timer may fire and a lock may     *)
(* expire at any moment after it was set.                                  *)
(*                                                                         *)
(* Values.  Redis holds strings: a string is a sequence of characters,     *)
(* null (a missing key) is the empty sequence, which is falsy in           *)
(* JavaScript exactly like the empty string.  An optional number (the      *)
(* handler's previousAvailable) is <<>> for null and <<n>> for n.          *)
(***************************************************************************)
EXTENDS Integers, Sequences, FiniteSets, TLC

\* ------------------------------------------------------------------ bounds
MaxOps == 2          \* what the environment does in a run, in any mix:
                     \* inventory edits, out-of-scope notifications, manual
                     \* syncs, failing adapter writes, ticks of the clock
MaxQty == 1          \* external edits set a quantity in 0..MaxQty
MaxSyncs == 3        \* reconciliations that reach their adapter write
LoopSyncs == 6       \* the same, in the runs of SpecLoop
MaxSuffix == 2       \* the random suffixes of a log key are 0..MaxSuffix
ErrOps == 4          \* the environment's steps in the runs of SpecErr, the
                     \* failing catalog fetches that follow the edits included
MaxClears == 1       \* clearCache and refreshCache calls of a run
RaceOps == 3         \* the edits of a run of SpecRace

\* --------------------------------------------------------------- constants
Stores == {"store1", "store2"}
syncTag == "sync-stock"
Null == <<>>
NoBarcode == ""

\* new ShopifyService({... locationId ...}): the ids are kept as written,
\* decimal strings; parseInt is injective on them.
locationId(s) == IF s = "store1" THEN "107120820601" ELSE "110812889462"
OtherLocation == "999"

otherStore_same(s) == s
\* sourceStore === 'store1' ? 'store2' : 'store1'
otherStore(s) == IF s = "store1" THEN "store2" ELSE "store1"

\* The products that carry the sync tag when the engine starts.
InitiallyTagged == {1, 2, 4}

\* Items whose quantity at the sync location the model tracks.
Tracked == {11, 12, 21}
StoreOf(i) == IF i < 20 THEN "store1" ELSE "store2"
Eans == {"A", "B"}
Keys == Stores \X Eans

\* ------------------------------------------------------------ conversions
DigitChars == <<"0", "1", "2", "3", "4", "5", "6", "7", "8", "9">>

RECURSIVE natToString(_)
natToString(n) ==
  IF n < 10 THEN << DigitChars[n + 1] >>
  ELSE natToString(n \div 10) \o << DigitChars[(n % 10) + 1] >>

\* Number.prototype.toString
toString(n) == IF n < 0 THEN <<"-">> \o natToString(-n) ELSE natToString(n)

DigitValue(c) == CHOOSE d \in 0..9 : DigitChars[d + 1] = c

RECURSIVE parseNat(_)
parseNat(s) ==
  IF s = <<>> THEN 0
  ELSE parseNat(SubSeq(s, 1, Len(s) - 1)) * 10 + DigitValue(s[Len(s)])

\* parseInt on the strings toString produces
parseInt(s) == IF Head(s) = "-" THEN -parseNat(Tail(s)) ELSE parseNat(s)

truthy_asNumber(v) == v # Null /\ v # <<"0">>
\* JavaScript truthiness of a Redis reply: null and "" are falsy, every
\* other string (also "0") is truthy.
truthy(v) == v # Null

JSONstringify(x) == <<"json", x>>
JSONparse(s) == s[2]

\* ------------------------------------------------------------------ state
VARIABLES
  stock,         \* live quantity at the sync location, per tracked item
  webhooks,      \* notifications emitted by the stores, not yet delivered
  redis,         \* the shared state store: key -> string
  handlers,      \* handleInventoryUpdate invocations suspended at an await
  timers,        \* live setTimeout handles of debounce
  pendingSyncs,  \* this.pendingSyncs: debounce key -> handle (Null: no entry)
  syncs,         \* reconciliations (syncDelta/FullToOtherStore) in flight
  lastCall,      \* the latest adapter write issued (observation)
  manualResult,  \* what the latest manualSync call returned to its caller
  now,           \* Date.now()
  nOps, nFail,   \* the environment's steps so far; the failed writes among them
  nSyncs,        \* reconciliations started so far
  mark,          \* an earlier state of the run, kept for comparison (SpecLoop)
  tagged,        \* the products that carry the sync tag in their store
  nFetch,        \* getProductsByTag calls made so far
  clears,        \* clearCache calls suspended at the await of their first del
  nClears        \* clearCache and refreshCache calls made so far

vars == << stock, webhooks, redis, handlers, timers, pendingSyncs, syncs,
           lastCall, manualResult, now, nOps, nFail, nSyncs, mark, tagged, nFetch,
           clears, nClears >>

\* The live catalogs (the stores' products.json); the tags of a product
\* are its other tags and the sync tag if it carries it.
\*   store1: 11 tagged EAN A | 12 tagged EAN B | 13 tagged, no barcode |
\*           14 untagged EAN C
\*   store2: 21 tagged EAN A (until a merchant removes the tag) |
\*           22 untagged EAN B
Tags(id, others) == IF id \in tagged THEN others \o <<syncTag>> ELSE others

Catalog(s) ==
  IF s = "store1"
  THEN << [id |-> 1, title |-> "P1", tags |-> Tags(1, <<"bio">>),
           variants |-> << [id |-> 111, barcode |-> "A", inventory_item_id |-> 11] >>],
          [id |-> 2, title |-> "P2", tags |-> Tags(2, <<>>),
           variants |-> << [id |-> 113, barcode |-> NoBarcode, inventory_item_id |-> 13],
                           [id |-> 112, barcode |-> "B", inventory_item_id |-> 12] >>],
          [id |-> 3, title |-> "P3", tags |-> Tags(3, <<"bio">>),
           variants |-> << [id |-> 114, barcode |-> "C", inventory_item_id |-> 14] >>] >>
  ELSE << [id |-> 5, title |-> "Q2", tags |-> Tags(5, <<"bio">>),
           variants |-> << [id |-> 122, barcode |-> "B", inventory_item_id |-> 22] >>],
          [id |-> 4, title |-> "Q1", tags |-> Tags(4, <<>>),
           variants |-> << [id |-> 121, barcode |-> "A", inventory_item_id |-> 21] >>] >>

\* ------------------------------------------------------------ Redis client
redisGet(r, k) == IF k \in DOMAIN r THEN r[k] ELSE Null
redisSetEx(r, k, v) == [x \in DOMAIN r \cup {k} |-> IF x = k THEN v ELSE r[x]]
redisDel(r, k) == [x \in DOMAIN r \ {k} |-> r[x]]
redisIncr(r, k) ==
  redisSetEx(r, k, toString((IF k \in DOMAIN r THEN parseInt(r[k]) ELSE 0) + 1))

lockKey(s, i) == <<"sync:lock", s, i>>
inventoryKey(s, ean) == <<"inventory", s, ean>>
productsKey(s) == <<"products", s, syncTag>>
syncCountKey == <<"sync:count:total">>
errorCountKey == <<"error:count:total">>

\* -------------------------------------------------------------- the adapter
hasTag(p) == \E i \in 1..Len(p.tags) : p.tags[i] = syncTag

\* ShopifyService.getProductsByTag
getProductsByTag(s) == SelectSeq(Catalog(s), hasTag)

\* The (product, variant) pairs of a product list, in iteration order.
RECURSIVE Pairs(_)
Pairs(products) ==
  IF products = <<>> THEN <<>>
  ELSE [i \in 1..Len(Head(products).variants) |->
          [product |-> Head(products), variant |-> Head(products).variants[i]]]
       \o Pairs(Tail(products))

\* for (product) for (variant) if (match) return {product, variant}; null:
\* the first of the matching pairs.
FirstMatch(matching) == IF matching = <<>> THEN Null ELSE << Head(matching) >>

getInventoryLevel_none(st, inventoryItemId) == [available |-> 0]
\* ShopifyService.getInventoryLevel(item, location) at the sync location
getInventoryLevel(st, inventoryItemId) == [available |-> st[inventoryItemId]]

applyOp_setAdds(level, call) == level + call.arg
\* inventory_levels/adjust.json and inventory_levels/set.json
applyOp(level, call) == IF call.op = "adjust" THEN level + call.arg ELSE call.arg

\* ------------------------------------------------------- catalog lookups
cachedCatalog_alwaysFetch(r, s) ==
  LET fetched == JSONstringify(getProductsByTag(s))
  IN [redis |-> redisSetEx(r, productsKey(s), fetched),
      products |-> JSONparse(fetched), fetches |-> 1]
\* The cache part shared by both lookups: on a miss fetch the tagged
\* catalog and store it whole, then parse what was cached.
cachedCatalog(r, s) ==
  LET cachedProducts == redisGet(r, productsKey(s))
      miss == ~truthy(cachedProducts)
      fetched == JSONstringify(getProductsByTag(s))
  IN [redis |-> IF miss THEN redisSetEx(r, productsKey(s), fetched) ELSE r,
      products |-> JSONparse(IF miss THEN fetched ELSE cachedProducts),
      fetches |-> IF miss THEN 1 ELSE 0]

findProductByInventoryItemCached_anyVariant(r, s, inventoryItemId) ==
  LET c == cachedCatalog(r, s)
  IN [redis |-> c.redis, found |-> FirstMatch(Pairs(c.products)),
      fetches |-> c.fetches]
findProductByInventoryItemCached(r, s, inventoryItemId) ==
  LET c == cachedCatalog(r, s)
      Match(pv) == pv.variant.inventory_item_id = inventoryItemId
  IN [redis |-> c.redis, found |-> FirstMatch(SelectSeq(Pairs(c.products), Match)),
      fetches |-> c.fetches]

getProductByEanCached_anyVariant(r, s, ean) ==
  LET c == cachedCatalog(r, s)
  IN [redis |-> c.redis, found |-> FirstMatch(Pairs(c.products)),
      fetches |-> c.fetches]
getProductByEanCached(r, s, ean) ==
  LET c == cachedCatalog(r, s)
      Match(pv) == pv.variant.barcode = ean
  IN [redis |-> c.redis, found |-> FirstMatch(SelectSeq(Pairs(c.products), Match)),
      fetches |-> c.fetches]

\* ------------------------------------------------------------------- Init
Init ==
  /\ stock \in {[i \in Tracked |-> IF i = 21 THEN q ELSE 0] : q \in 0..1}
  /\ webhooks = {}
  /\ redis = [k \in {} |-> Null]
  /\ handlers = {}
  /\ timers = {}
  /\ pendingSyncs = [k \in Keys |-> Null]
  /\ syncs = {}
  /\ lastCall = Null
  /\ manualResult = "none"
  /\ now = 0
  /\ nOps = 0 /\ nFail = 0 /\ nSyncs = 0
  /\ mark = Null
  /\ tagged = InitiallyTagged
  /\ nFetch = 0
  /\ clears = {}
  /\ nClears = 0

\* ------------------------------------------------------------ environment
Notification(s, i, loc, v) ==
  [store |-> s, inventory_item_id |-> i, location_id |-> loc, available |-> v]

\* Somebody edits a quantity in a store's admin: the store changes and
\* emits inventory_levels/update.  cap bounds the environment's steps.
Edit(i, v, cap) ==
  /\ nOps < cap
  /\ v # stock[i]
  /\ stock' = [stock EXCEPT ![i] = v]
  /\ webhooks' = webhooks \cup {Notification(StoreOf(i), i, locationId(StoreOf(i)), v)}
  /\ nOps' = nOps + 1
  /\ UNCHANGED << redis, handlers, timers, pendingSyncs, syncs, lastCall,
                  manualResult, now, nFail, nSyncs >>
  /\ UNCHANGED << mark, tagged, nFetch, clears, nClears >>

ExternalEdit(i, v) == Edit(i, v, MaxOps)

\* A notification outside the sync scope: another location, an untagged
\* product, a variant without barcode.
ExternalOther(i, loc) ==
  /\ nOps < MaxOps
  /\ loc # locationId(StoreOf(i)) \/ i \notin Tracked
  /\ webhooks' = webhooks \cup {Notification(StoreOf(i), i, loc, 1)}
  /\ nOps' = nOps + 1
  /\ UNCHANGED << stock, redis, handlers, timers, pendingSyncs, syncs, lastCall,
                  manualResult, now, nFail, nSyncs >>
  /\ UNCHANGED << mark, tagged, nFetch, clears, nClears >>

\* The store sends the notification of an item's current level once more
\* (webhooks are delivered at least once).
Redeliver(i) ==
  /\ nOps < MaxOps
  /\ webhooks' = webhooks \cup {Notification(StoreOf(i), i, locationId(StoreOf(i)), stock[i])}
  /\ nOps' = nOps + 1
  /\ UNCHANGED << stock, redis, handlers, timers, pendingSyncs, syncs, lastCall,
                  manualResult, now, nFail, nSyncs >>
  /\ UNCHANGED << mark, tagged, nFetch, clears, nClears >>

\* A millisecond passes on the engine's clock.
Tick ==
  /\ nOps < MaxOps
  /\ now' = now + 1
  /\ nOps' = nOps + 1
  /\ UNCHANGED << stock, webhooks, redis, handlers, timers, pendingSyncs, syncs,
                  lastCall, manualResult, nFail, nSyncs >>
  /\ UNCHANGED << mark, tagged, nFetch, clears, nClears >>

\* The TTL of an echo-lock runs out.
ExpireLock(k) ==
  /\ k \in DOMAIN redis
  /\ k[1] = "sync:lock"
  /\ redis' = redisDel(redis, k)
  /\ UNCHANGED << stock, webhooks, handlers, timers, pendingSyncs, syncs, lastCall,
                  manualResult, now, nOps, nFail, nSyncs >>
  /\ UNCHANGED << mark, tagged, nFetch, clears, nClears >>

\* -------------------------------------------------- handleInventoryUpdate
isLocked_otherStore(r, sourceStore, inventory_item_id) ==
  redisGet(r, lockKey(otherStore(sourceStore), inventory_item_id))
\* const isLocked = await this.redis.get(`sync:lock:${sourceStore}:${inventory_item_id}`)
isLocked(r, sourceStore, inventory_item_id) ==
  redisGet(r, lockKey(sourceStore, inventory_item_id))

lockedDrop_storesValue(r, n) ==
  LET look == findProductByInventoryItemCached(r, n.store, n.inventory_item_id)
  IN IF look.found = Null THEN r
     ELSE redisSetEx(r, inventoryKey(n.store, look.found[1].variant.barcode),
                     toString(n.available))
\* if (isLocked) return: the state store the handler of the notification n
\* leaves when the echo-lock is set.
lockedDrop(r, n) == r

\* From the call to the await of the snapshot read: location filter,
\* echo-lock check, catalog lookup, tag and barcode filters.
HandleStart(n) ==
  LET sourceStore == n.store
      look == findProductByInventoryItemCached(redis, sourceStore, n.inventory_item_id)
  IN
  /\ n \in webhooks
  /\ webhooks' = webhooks \ {n}
  /\ IF n.location_id # locationId(sourceStore)
     THEN \* the catalog is fetched to name the product in the console
          /\ nFetch' = nFetch + 1
          /\ UNCHANGED << redis, handlers >>
     ELSE IF truthy(isLocked(redis, sourceStore, n.inventory_item_id))
     THEN /\ redis' = lockedDrop(redis, n)
          /\ UNCHANGED << handlers, nFetch >>
     ELSE /\ redis' = look.redis
          /\ nFetch' = nFetch + look.fetches
          /\ IF look.found = Null
             THEN UNCHANGED handlers
             ELSE IF look.found[1].variant.barcode = NoBarcode
             THEN UNCHANGED handlers
             ELSE handlers' = handlers \cup
                    {[store |-> sourceStore, available |-> n.available,
                      ean |-> look.found[1].variant.barcode,
                      pc |-> "read", previousAvailable |-> Null, delta |-> 0]}
  /\ UNCHANGED << stock, timers, pendingSyncs, syncs, lastCall, manualResult,
                  now, nOps, nFail, nSyncs >>
  /\ UNCHANGED << mark, tagged, clears, nClears >>

\* logError(error, sourceStore, webhookData): the entry is keyed by the
\* timestamp alone.
logError(r, ts, error, sourceStore, webhookData) ==
  redisIncr(
    redisSetEx(r, <<"error:log", ts>>,
               JSONstringify([error |-> error, sourceStore |-> sourceStore,
                              webhookData |-> webhookData, timestamp |-> ts])),
    errorCountKey)

failedRefresh_partial(r, s) == redisSetEx(r, productsKey(s), JSONstringify(<<>>))
\* const products = await shopifyService.getProductsByTag(this.syncTag)
\* throws on a cache miss: the setEx after it is not reached.
failedRefresh(r, s) == r

\* The catalog is not cached and the store's products.json request throws
\* inside findProductByInventoryItemCached: the catch of
\* handleInventoryUpdate logs the error and the handler returns.  cap
\* bounds the environment's steps.
LookupFail(n, cap) ==
  /\ n \in webhooks
  /\ n.location_id = locationId(n.store)
  /\ ~truthy(isLocked(redis, n.store, n.inventory_item_id))
  /\ ~truthy(redisGet(redis, productsKey(n.store)))
  /\ nOps < cap
  /\ nOps' = nOps + 1
  /\ nFail' = nFail + 1
  /\ webhooks' = webhooks \ {n}
  /\ redis' = logError(failedRefresh(redis, n.store), now, "getProductsByTag", n.store, n)
  /\ nFetch' = nFetch + 1
  /\ UNCHANGED << stock, handlers, timers, pendingSyncs, syncs, lastCall,
                  manualResult, now, nSyncs >>
  /\ UNCHANGED << mark, tagged, clears, nClears >>

HandleLookupFail(n) == LookupFail(n, MaxOps)

\* previousValue ? parseInt(previousValue) : null
previousAvailableOf(previousValue) ==
  IF truthy(previousValue) THEN << parseInt(previousValue) >> ELSE Null

computeDelta_noBaseline(available, previousAvailable) ==
  IF previousAvailable # Null THEN available ELSE 0
\* let delta = 0; if (previousAvailable !== null) delta = available - previousAvailable
computeDelta(available, previousAvailable) ==
  IF previousAvailable # Null THEN available - previousAvailable[1] ELSE 0

\* await this.redis.get(cacheKey), then the delta
HandleRead(h) ==
  LET prev == previousAvailableOf(redisGet(redis, inventoryKey(h.store, h.ean)))
  IN
  /\ h \in handlers /\ h.pc = "read"
  /\ handlers' = (handlers \ {h}) \cup
       {[h EXCEPT !.pc = "write", !.previousAvailable = prev,
                  !.delta = computeDelta(h.available, prev)]}
  /\ UNCHANGED << stock, webhooks, redis, timers, pendingSyncs, syncs, lastCall,
                  manualResult, now, nOps, nFail, nSyncs >>
  /\ UNCHANGED << mark, tagged, nFetch, clears, nClears >>

debounceKey_eanOnly(sourceStore, ean) == << "store1", ean >>
\* const debounceKey = `sync:debounce:${sourceStore}:${ean}`
debounceKey(sourceStore, ean) == << sourceStore, ean >>

\* The timeout handle debounce creates: the callback with the variables it
\* closes over.
Callback(h) ==
  [key |-> debounceKey(h.store, h.ean), sourceStore |-> h.store, ean |-> h.ean,
   previousAvailable |-> h.previousAvailable, delta |-> h.delta,
   available |-> h.available]

clearPending_noClear(ts, ps, key) == ts
\* if (this.pendingSyncs.has(key)) clearTimeout(this.pendingSyncs.get(key))
clearPending(ts, ps, key) == IF ps[key] # Null THEN ts \ {ps[key][1]} ELSE ts

debounce_onlyIfPending(ts, ps, key, callback) ==
  IF ps[key] # Null
  THEN [timers |-> clearPending(ts, ps, key) \cup {callback},
        pendingSyncs |-> [ps EXCEPT ![key] = << callback >>]]
  ELSE [timers |-> ts, pendingSyncs |-> ps]
\* debounce(key, callback): clear the pending timeout of the key, set the
\* new one and keep its handle in pendingSyncs.
debounce(ts, ps, key, callback) ==
  [timers |-> clearPending(ts, ps, key) \cup {callback},
   pendingSyncs |-> [ps EXCEPT ![key] = << callback >>]]

deletePending_keep(ps, key) == ps
\* this.pendingSyncs.delete(key), the first statement of the timeout
deletePending(ps, key) == [ps EXCEPT ![key] = Null]

storeSnapshot_deferred(r, h) == r
\* await this.redis.setEx(cacheKey, 3600 * 24, available.toString())
storeSnapshot(r, h) == redisSetEx(r, inventoryKey(h.store, h.ean), toString(h.available))

\* await this.redis.setEx(cacheKey, 3600 * 24, available.toString()), then
\* debounce(key, callback)
HandleWrite(h) ==
  LET cb == Callback(h)
      d == debounce(timers, pendingSyncs, cb.key, cb)
  IN
  /\ h \in handlers /\ h.pc = "write"
  /\ redis' = storeSnapshot(redis, h)
  /\ handlers' = handlers \ {h}
  /\ timers' = d.timers
  /\ pendingSyncs' = d.pendingSyncs
  /\ UNCHANGED << stock, webhooks, syncs, lastCall, manualResult, now, nOps, nFail, nSyncs >>
  /\ UNCHANGED << mark, tagged, nFetch, clears, nClears >>

\* ------------------------------------------------ the debounced callback
callbackBranch_deltaFirst(previousAvailable, delta, available) ==
  IF delta # 0 \/ previousAvailable = Null THEN "delta" ELSE "noop"
callbackBranch_noZeroCheck(previousAvailable, delta, available) ==
  IF previousAvailable # Null THEN "delta" ELSE "full"
\* if (previousAvailable !== null && delta !== 0) delta sync
\* else if (previousAvailable === null) full sync, else nothing
callbackBranch(previousAvailable, delta, available) ==
  IF previousAvailable # Null /\ delta # 0 THEN "delta"
  ELSE IF previousAvailable = Null THEN "full" ELSE "noop"

setLock_missing(r, targetStore, item) == [redis |-> r, locked |-> Null]
\* await this.redis.setEx(lockKey, 20, '1'): the state store afterwards and
\* the lock that was set.
setLock(r, targetStore, item) ==
  [redis |-> redisSetEx(r, lockKey(targetStore, item), <<"1">>),
   locked |-> << << targetStore, item >> >>]

\* syncDeltaToOtherStore / syncFullToOtherStore up to the await of the
\* adapter write: resolve the target variant through the catalog cache,
\* return if there is none, else set the echo-lock.  The result is the
\* state store afterwards and the reconciliation to continue, if any;
\* locked records the lock this reconciliation has set, level (later) the
\* quantity the target store holds after its write.
startSync(r, sourceStore, ean, kind, delta, value, previousAvailable, origin) ==
  LET targetStore == otherStore(sourceStore)
      look == getProductByEanCached(r, targetStore, ean)
      item == look.found[1].variant.inventory_item_id
      lock == setLock(look.redis, targetStore, item)
  IN IF look.found = Null
     THEN [redis |-> look.redis, fetches |-> look.fetches, tasks |-> {}]
     ELSE [redis |-> lock.redis, fetches |-> look.fetches,
           tasks |-> {[sourceStore |-> sourceStore, targetStore |-> targetStore,
                       ean |-> ean, kind |-> kind, delta |-> delta, value |-> value,
                       previousAvailable |-> previousAvailable, origin |-> origin,
                       item |-> item, pc |-> "adapter", cur |-> Null, level |-> Null,
                       locked |-> lock.locked]}]

\* The timeout fires: this.pendingSyncs.delete(key); await callback().
\* cap bounds the reconciliations of a run.
Fire(t, cap) ==
  LET branch == callbackBranch(t.previousAvailable, t.delta, t.available)
      st == startSync(redis, t.sourceStore, t.ean, branch, t.delta, t.available,
                      t.previousAvailable, "event")
  IN
  /\ t \in timers
  /\ timers' = timers \ {t}
  /\ pendingSyncs' = deletePending(pendingSyncs, t.key)
  /\ IF branch = "noop"
     THEN UNCHANGED << redis, syncs, nSyncs, nFetch >>
     ELSE /\ st.tasks # {} => nSyncs < cap
          /\ redis' = st.redis
          /\ nFetch' = nFetch + st.fetches
          /\ syncs' = syncs \cup st.tasks
          /\ nSyncs' = nSyncs + Cardinality(st.tasks)
  /\ UNCHANGED << stock, webhooks, handlers, lastCall, manualResult,
                  now, nOps, nFail >>
  /\ UNCHANGED << mark, tagged, clears, nClears >>

TimerFire(t) == Fire(t, MaxSyncs)

adapterOp_unsigned(t) ==
  IF t.kind = "delta"
  THEN [op |-> "adjust", arg |-> IF t.delta < 0 THEN -t.delta ELSE t.delta]
  ELSE [op |-> "set", arg |-> t.value]
\* The adapter write a reconciliation issues: adjustInventoryLevel(item,
\* location, delta) or setInventoryLevel(item, location, available).
adapterOp(t) ==
  IF t.kind = "delta" THEN [op |-> "adjust", arg |-> t.delta]
  ELSE [op |-> "set", arg |-> t.value]

Call(t, ok) ==
  [op |-> adapterOp(t).op, arg |-> adapterOp(t).arg, store |-> t.targetStore,
   item |-> t.item, location |-> locationId(t.targetStore), ok |-> ok,
   kind |-> t.kind, origin |-> t.origin, sourceStore |-> t.sourceStore,
   ean |-> t.ean, previousAvailable |-> t.previousAvailable,
   available |-> t.value, delta |-> t.delta, locked |-> t.locked]

\* await targetService.adjustInventoryLevel(...) / setInventoryLevel(...):
\* the store applies the write and emits its own notification.
SyncAdapter(t) ==
  LET level == applyOp(stock[t.item], adapterOp(t))
  IN
  /\ t \in syncs /\ t.pc = "adapter"
  /\ stock' = [stock EXCEPT ![t.item] = level]
  /\ webhooks' = webhooks \cup
       {Notification(t.targetStore, t.item, locationId(t.targetStore), level)}
  /\ lastCall' = << Call(t, TRUE) >>
  /\ syncs' = (syncs \ {t}) \cup
       {[t EXCEPT !.pc = IF t.kind = "delta" THEN "read" ELSE "write",
                  !.level = << level >>]}
  /\ UNCHANGED << redis, handlers, timers, pendingSyncs, manualResult,
                  now, nOps, nFail, nSyncs >>
  /\ UNCHANGED << mark, tagged, nFetch, clears, nClears >>

failedWrite_unlock(r, t) == redisDel(r, lockKey(t.targetStore, t.item))
\* catch (error) { console.error(...); throw error; }: the state store a
\* reconciliation leaves when its adapter write throws.
failedWrite(r, t) == r

\* The adapter call throws: the sync method rethrows, which rejects the
\* timer callback (nobody catches it) or the manualSync call.
SyncAdapterFail(t) ==
  /\ t \in syncs /\ t.pc = "adapter"
  /\ nOps < MaxOps
  /\ nOps' = nOps + 1
  /\ nFail' = nFail + 1
  /\ lastCall' = << Call(t, FALSE) >>
  /\ syncs' = syncs \ {t}
  /\ manualResult' = IF t.origin = "manual" THEN "error" ELSE manualResult
  /\ redis' = failedWrite(redis, t)
  /\ UNCHANGED << stock, webhooks, handlers, timers, pendingSyncs, now, nSyncs >>
  /\ UNCHANGED << mark, tagged, nFetch, clears, nClears >>

\* syncDeltaToOtherStore: await this.redis.get(targetCacheKey)
SyncRead(t) ==
  /\ t \in syncs /\ t.pc = "read"
  /\ syncs' = (syncs \ {t}) \cup
       {[t EXCEPT !.pc = "write",
                  !.cur = redisGet(redis, inventoryKey(t.targetStore, t.ean))]}
  /\ UNCHANGED << stock, webhooks, redis, handlers, timers, pendingSyncs, lastCall,
                  manualResult, now, nOps, nFail, nSyncs >>
  /\ UNCHANGED << mark, tagged, nFetch, clears, nClears >>

targetSnapshot_alwaysAbsolute(t) == toString(t.value)
targetSnapshot_fullOffByOne(t) ==
  IF t.kind = "delta" /\ truthy(t.cur) THEN toString(parseInt(t.cur) + t.delta)
  ELSE toString(t.value + 1)
\* The target snapshot a reconciliation stores after its write:
\* parseInt(targetCurrentValue) + delta if there was one, else newValue;
\* available for a full sync.
targetSnapshot(t) ==
  IF t.kind = "delta" /\ truthy(t.cur) THEN toString(parseInt(t.cur) + t.delta)
  ELSE toString(t.value)

\* ------------------------------------------------------------------- logs
LogKeys(r, prefix) == {k \in DOMAIN r : k[1] = prefix}
\* Math.random().toString(36).substr(2, 9): a suffix no stored key has.
Suffix(r, ts) == Cardinality({k \in LogKeys(r, "sync:log") : k[2] = ts})

logSyncEvent_noCount(r, ts, sourceStore, targetStore, ean, value, type) ==
  redisSetEx(r, <<"sync:log", ts, Suffix(r, ts)>>,
             JSONstringify([sourceStore |-> sourceStore, targetStore |-> targetStore,
                            ean |-> ean, value |-> value, type |-> type,
                            timestamp |-> ts]))
\* logSyncEvent(sourceStore, targetStore, ean, value, type)
logSyncEvent(r, ts, sourceStore, targetStore, ean, value, type) ==
  redisIncr(
    redisSetEx(r, <<"sync:log", ts, Suffix(r, ts)>>,
               JSONstringify([sourceStore |-> sourceStore, targetStore |-> targetStore,
                              ean |-> ean, value |-> value, type |-> type,
                              timestamp |-> ts])),
    syncCountKey)

\* await this.redis.setEx(targetCacheKey, 3600 * 24, ...), then
\* await this.logSyncEvent(...); the sync method returns
SyncWrite(t) ==
  /\ t \in syncs /\ t.pc = "write"
  /\ redis' = logSyncEvent(
                redisSetEx(redis, inventoryKey(t.targetStore, t.ean), targetSnapshot(t)),
                now, t.sourceStore, t.targetStore, t.ean,
                IF t.kind = "delta" THEN t.delta ELSE t.value, t.kind)
  /\ syncs' = syncs \ {t}
  /\ manualResult' = IF t.origin = "manual" THEN "ok" ELSE manualResult
  /\ UNCHANGED << stock, webhooks, handlers, timers, pendingSyncs, lastCall,
                  now, nOps, nFail, nSyncs >>
  /\ UNCHANGED << mark, tagged, nFetch, clears, nClears >>

\* logSyncEvent with the key suffix Math.random() gives it.
logSyncEventAs(r, ts, suffix, sourceStore, targetStore, ean, value, type) ==
  redisIncr(
    redisSetEx(r, <<"sync:log", ts, suffix>>,
               JSONstringify([sourceStore |-> sourceStore, targetStore |-> targetStore,
                              ean |-> ean, value |-> value, type |-> type,
                              timestamp |-> ts])),
    syncCountKey)

\* The step of SyncWrite, the suffix of the log key being any that no
\* stored key of the same millisecond has: Math.random() does not follow
\* the order of the calls.
SyncWriteRandom(t) ==
  /\ t \in syncs /\ t.pc = "write"
  /\ \E suffix \in 0..MaxSuffix :
       /\ << "sync:log", now, suffix >> \notin DOMAIN redis
       /\ redis' = logSyncEventAs(
                     redisSetEx(redis, inventoryKey(t.targetStore, t.ean), targetSnapshot(t)),
                     now, suffix, t.sourceStore, t.targetStore, t.ean,
                     IF t.kind = "delta" THEN t.delta ELSE t.value, t.kind)
  /\ syncs' = syncs \ {t}
  /\ manualResult' = IF t.origin = "manual" THEN "ok" ELSE manualResult
  /\ UNCHANGED << stock, webhooks, handlers, timers, pendingSyncs, lastCall,
                  now, nOps, nFail, nSyncs >>
  /\ UNCHANGED << mark, tagged, nFetch, clears, nClears >>

\* keys.sort(): the keys are strings `sync:log:${timestamp}:${suffix}`
\* with timestamps of one width, compared by timestamp, then by suffix.
keyBefore(k1, k2) == k1[2] < k2[2] \/ (k1[2] = k2[2] /\ k1[3] < k2[3])

\* keys.sort().reverse()
RECURSIVE sortReverse(_)
sortReverse(keys) ==
  IF keys = {} THEN <<>>
  ELSE LET last == CHOOSE k \in keys : \A j \in keys : j = k \/ keyBefore(j, k)
       IN << last >> \o sortReverse(keys \ {last})

\* Array.prototype.slice(0, limit)
slice(a, limit) == SubSeq(a, 1, IF limit < Len(a) THEN limit ELSE Len(a))

\* getLogs(limit)
getLogs(r, limit) ==
  LET sortedKeys == slice(sortReverse(LogKeys(r, "sync:log")), limit)
  IN [i \in 1..Len(sortedKeys) |-> JSONparse(r[sortedKeys[i]])]

\* getStats: parseInt(await this.redis.get('sync:count:total') || 0) and the
\* same for 'error:count:total'
totalSyncs(r) == IF truthy(redisGet(r, syncCountKey)) THEN parseInt(r[syncCountKey]) ELSE 0
totalErrors(r) == IF truthy(redisGet(r, errorCountKey)) THEN parseInt(r[errorCountKey]) ELSE 0

\* ------------------------------------------------------------- manualSync
\* manualSync(ean, sourceStore) up to the adapter write of the full sync:
\* find the source variant (throw if absent), read its live level, then
\* syncFullToOtherStore.
ManualSync(ean, sourceStore) ==
  LET src == getProductByEanCached(redis, sourceStore, ean)
      level == getInventoryLevel(stock, src.found[1].variant.inventory_item_id).available
      st == startSync(src.redis, sourceStore, ean, "full", 0, level, Null, "manual")
  IN
  /\ nOps < MaxOps
  /\ nOps' = nOps + 1
  /\ IF src.found = Null
     THEN /\ redis' = src.redis
          /\ nFetch' = nFetch + src.fetches
          /\ manualResult' = "error"
          /\ UNCHANGED << syncs, nSyncs >>
     ELSE /\ st.tasks # {} => nSyncs < MaxSyncs
          /\ redis' = st.redis
          /\ nFetch' = nFetch + src.fetches + st.fetches
          /\ syncs' = syncs \cup st.tasks
          /\ nSyncs' = nSyncs + Cardinality(st.tasks)
          /\ manualResult' = IF st.tasks = {} THEN "ok" ELSE "pending"
  /\ UNCHANGED << stock, webhooks, handlers, timers, pendingSyncs, lastCall,
                  now, nFail >>
  /\ UNCHANGED << mark, tagged, clears, nClears >>

\* ------------------------------------------------ clearCache, refreshCache
clearInventory_bothStores(r, ean, storeName) ==
  redisDel(redisDel(r, inventoryKey(storeName, ean)),
           inventoryKey(otherStore(storeName), ean))
\* await this.redis.del(`inventory:${storeName}:${ean}`)
clearInventory(r, ean, storeName) == redisDel(r, inventoryKey(storeName, ean))

\* await this.redis.del(`products:${storeName}:${this.syncTag}`)
clearProducts(r, storeName) == redisDel(r, productsKey(storeName))

\* clearCache(ean, storeName) up to its first await: with an identifier
\* the del of the inventory snapshot (the del of the catalog cache follows
\* the reply), without one (ean is undefined or '') the del of the catalog
\* cache, after which the call returns.
ClearCache(ean, storeName) ==
  /\ nClears < MaxClears
  /\ nClears' = nClears + 1
  /\ IF ean # NoBarcode
     THEN /\ redis' = clearInventory(redis, ean, storeName)
          /\ clears' = clears \cup {[ean |-> ean, storeName |-> storeName]}
     ELSE /\ redis' = clearProducts(redis, storeName)
          /\ clears' = clears
  /\ UNCHANGED << stock, webhooks, handlers, timers, pendingSyncs, syncs, lastCall,
                  manualResult, now, nOps, nFail, nSyncs, mark, tagged, nFetch >>

\* clearCache after the reply of its first del: the del of the catalog
\* cache; the call returns.
ClearProducts(c) ==
  /\ c \in clears
  /\ redis' = clearProducts(redis, c.storeName)
  /\ clears' = clears \ {c}
  /\ UNCHANGED << stock, webhooks, handlers, timers, pendingSyncs, syncs, lastCall,
                  manualResult, now, nOps, nFail, nSyncs, mark, tagged, nFetch,
                  nClears >>

\* refreshCache(storeName)
RefreshCache(storeName) ==
  /\ nClears < MaxClears
  /\ nClears' = nClears + 1
  /\ redis' = clearProducts(redis, storeName)
  /\ UNCHANGED << stock, webhooks, handlers, timers, pendingSyncs, syncs, lastCall,
                  manualResult, now, nOps, nFail, nSyncs, mark, tagged, nFetch,
                  clears >>

\* ------------------------------------------------------------------- Next
Next ==
  \/ \E i \in Tracked, v \in 0..MaxQty : ExternalEdit(i, v)
  \/ \E i \in {13, 14, 22} : ExternalOther(i, locationId(StoreOf(i)))
  \/ ExternalOther(11, OtherLocation)
  \/ \E i \in Tracked : Redeliver(i)
  \/ Tick
  \/ \E k \in DOMAIN redis : ExpireLock(k)
  \/ \E n \in webhooks : HandleStart(n)
  \/ \E n \in webhooks : HandleLookupFail(n)
  \/ \E h \in handlers : HandleRead(h)
  \/ \E h \in handlers : HandleWrite(h)
  \/ \E t \in timers : TimerFire(t)
  \/ \E t \in syncs : SyncAdapter(t)
  \/ \E t \in syncs : SyncAdapterFail(t)
  \/ \E t \in syncs : SyncRead(t)
  \/ \E t \in syncs : SyncWrite(t)
  \/ \E ean \in Eans, s \in Stores : ManualSync(ean, s)

Spec == Init /\ [][Next]_vars

\* --------------------------------------------------------------- SpecCache
\* Runs about identifier A in which the catalogs change under the cache,
\* cache entries run out and catalog fetches fail in every caller of a
\* lookup.

\* A merchant removes the sync tag from product p, or puts it back.
TagEdit(p) ==
  /\ tagged' = IF p \in tagged THEN tagged \ {p} ELSE tagged \cup {p}
  /\ UNCHANGED << stock, webhooks, redis, handlers, timers, pendingSyncs, syncs,
                  lastCall, manualResult, now, nOps, nFail, nSyncs, mark, nFetch,
                  clears, nClears >>

\* The TTL (this.cacheDuration) of a catalog cache entry runs out.
ExpireCatalog(s) ==
  /\ productsKey(s) \in DOMAIN redis
  /\ nOps < MaxOps
  /\ nOps' = nOps + 1
  /\ redis' = redisDel(redis, productsKey(s))
  /\ UNCHANGED << stock, webhooks, handlers, timers, pendingSyncs, syncs, lastCall,
                  manualResult, now, nFail, nSyncs, mark, tagged, nFetch,
                  clears, nClears >>

\* The timeout fires, the sync method misses the catalog cache of the
\* target store and getProductsByTag throws: the sync method rethrows and
\* the timer callback is rejected.
TimerLookupFail(t) ==
  LET targetStore == otherStore(t.sourceStore)
  IN
  /\ t \in timers
  /\ callbackBranch(t.previousAvailable, t.delta, t.available) # "noop"
  /\ ~truthy(redisGet(redis, productsKey(targetStore)))
  /\ nOps < MaxOps
  /\ nOps' = nOps + 1
  /\ nFail' = nFail + 1
  /\ nFetch' = nFetch + 1
  /\ timers' = timers \ {t}
  /\ pendingSyncs' = deletePending(pendingSyncs, t.key)
  /\ redis' = failedRefresh(redis, targetStore)
  /\ UNCHANGED << stock, webhooks, handlers, syncs, lastCall, manualResult,
                  now, nSyncs, mark, tagged, clears, nClears >>

\* manualSync(ean, sourceStore) in which getProductsByTag throws, in the
\* lookup of the source variant or, that one found, in the lookup of the
\* target variant: manualSync rejects.
ManualLookupFail(ean, sourceStore, failing) ==
  LET src == getProductByEanCached(redis, sourceStore, ean)
  IN
  /\ nOps < MaxOps
  /\ nOps' = nOps + 1
  /\ nFail' = nFail + 1
  /\ IF failing = sourceStore
     THEN /\ ~truthy(redisGet(redis, productsKey(sourceStore)))
          /\ redis' = failedRefresh(redis, sourceStore)
          /\ nFetch' = nFetch + 1
     ELSE /\ src.found # Null
          /\ ~truthy(redisGet(src.redis, productsKey(failing)))
          /\ redis' = failedRefresh(src.redis, failing)
          /\ nFetch' = nFetch + src.fetches + 1
  /\ manualResult' = "error"
  /\ UNCHANGED << stock, webhooks, handlers, timers, pendingSyncs, syncs, lastCall,
                  now, nSyncs, mark, tagged, clears, nClears >>

NextCache ==
  \/ \E v \in 0..MaxQty : ExternalEdit(11, v)
  \/ \E k \in DOMAIN redis : ExpireLock(k)
  \/ \E n \in webhooks : HandleStart(n)
  \/ \E n \in webhooks : HandleLookupFail(n)
  \/ \E h \in handlers : HandleRead(h)
  \/ \E h \in handlers : HandleWrite(h)
  \/ \E t \in timers : TimerFire(t)
  \/ \E t \in timers : TimerLookupFail(t)
  \/ \E t \in syncs : SyncAdapter(t)
  \/ \E t \in syncs : SyncRead(t)
  \/ \E t \in syncs : SyncWrite(t)
  \/ \E s \in Stores : ManualSync("A", s)
  \/ \E s \in Stores, f \in Stores : ManualLookupFail("A", s, f)
  \/ TagEdit(4)
  \/ \E s \in Stores : ExpireCatalog(s)

SpecCache == Init /\ [][NextCache]_vars

\* ----------------------------------------------------------------- SpecErr
\* Runs in which the catalog fetch of a store keeps failing: after the
\* edits, the handler of each notification may meet the failure.
NextErr ==
  \/ \E i \in Tracked, v \in 0..MaxQty : ExternalEdit(i, v)
  \/ \E k \in DOMAIN redis : ExpireLock(k)
  \/ \E n \in webhooks : HandleStart(n)
  \/ \E n \in webhooks : LookupFail(n, ErrOps)
  \/ \E h \in handlers : HandleRead(h)
  \/ \E h \in handlers : HandleWrite(h)
  \/ \E t \in timers : TimerFire(t)
  \/ \E t \in syncs : SyncAdapter(t)
  \/ \E t \in syncs : SyncRead(t)
  \/ \E t \in syncs : SyncWrite(t)

SpecErr == Init /\ [][NextErr]_vars

\* ----------------------------------------------------------------- SpecLog
\* Runs about identifier A in which the suffix of a sync log key is random.
NextLog ==
  \/ \E v \in 0..MaxQty : ExternalEdit(11, v)
  \/ Tick
  \/ \E k \in DOMAIN redis : ExpireLock(k)
  \/ \E n \in webhooks : HandleStart(n)
  \/ \E h \in handlers : HandleRead(h)
  \/ \E h \in handlers : HandleWrite(h)
  \/ \E t \in timers : TimerFire(t)
  \/ \E t \in syncs : SyncAdapter(t)
  \/ \E t \in syncs : SyncRead(t)
  \/ \E t \in syncs : SyncWriteRandom(t)

SpecLog == Init /\ [][NextLog]_vars

\* ---------------------------------------------------------------- SpecLive
\* Runs of edits of item 11 under the scheduling of Node and of the
\* clients: a delivered notification is handled, a reply of the state
\* store or of a store's API arrives (the adapter write returns or
\* throws), a timeout that was set and not cleared fires.
NextLive ==
  \/ \E v \in 0..MaxQty : ExternalEdit(11, v)
  \/ \E n \in webhooks : HandleStart(n)
  \/ \E h \in handlers : HandleRead(h)
  \/ \E h \in handlers : HandleWrite(h)
  \/ \E t \in timers : TimerFire(t)
  \/ \E t \in syncs : SyncAdapter(t)
  \/ \E t \in syncs : SyncAdapterFail(t)
  \/ \E t \in syncs : SyncRead(t)
  \/ \E t \in syncs : SyncWrite(t)

SpecLive ==
  /\ Init /\ [][NextLive]_vars
  /\ WF_vars(\E n \in webhooks : HandleStart(n))
  /\ WF_vars(\E h \in handlers : HandleRead(h))
  /\ WF_vars(\E h \in handlers : HandleWrite(h))
  /\ WF_vars(\E t \in timers : TimerFire(t))
  /\ WF_vars(\E t \in syncs : SyncAdapter(t))
  /\ WF_vars(\E t \in syncs : SyncRead(t))
  /\ WF_vars(\E t \in syncs : SyncWrite(t))

\* --------------------------------------------------------------- SpecClear
\* Runs about identifier A in which an operator clears the caches, while
\* events are handled and reconciliations run, adapter writes may fail and
\* locks expire.
NextClear ==
  \/ \E v \in 0..MaxQty : ExternalEdit(11, v)
  \/ \E k \in DOMAIN redis : ExpireLock(k)
  \/ \E n \in webhooks : HandleStart(n)
  \/ \E h \in handlers : HandleRead(h)
  \/ \E h \in handlers : HandleWrite(h)
  \/ \E t \in timers : TimerFire(t)
  \/ \E t \in syncs : SyncAdapter(t)
  \/ \E t \in syncs : SyncAdapterFail(t)
  \/ \E t \in syncs : SyncRead(t)
  \/ \E t \in syncs : SyncWrite(t)
  \/ \E ean \in {"A", NoBarcode}, s \in Stores : ClearCache(ean, s)
  \/ \E c \in clears : ClearProducts(c)
  \/ \E s \in Stores : RefreshCache(s)

SpecClear == Init /\ [][NextClear]_vars

\* ---------------------------------------------------------------- SpecRace
\* Runs of three edits of item 11 in which no lock expires: every
\* reconciliation goes from store1 to store2, the notifications of its
\* writes are dropped, and reconciliations overlap when an adapter write
\* takes longer than the debounce delay of the next event.
NextRace ==
  \/ \E v \in 0..MaxQty : Edit(11, v, RaceOps)
  \/ \E n \in webhooks : HandleStart(n)
  \/ \E h \in handlers : HandleRead(h)
  \/ \E h \in handlers : HandleWrite(h)
  \/ \E t \in timers : TimerFire(t)
  \/ \E t \in syncs : SyncAdapter(t)
  \/ \E t \in syncs : SyncRead(t)
  \/ \E t \in syncs : SyncWrite(t)

SpecRace == Init /\ [][NextRace]_vars

\* ---------------------------------------------------------------- SpecLoop
\* Runs in which notifications arrive one at a time, each after the engine
\* has finished with the one before (no handler suspended, no timer
\* pending, no reconciliation in flight), and only item 11 is edited.
Idle == handlers = {} /\ timers = {} /\ syncs = {}

\* What the engine's decisions depend on: the stores, the notifications
\* still to come, the snapshots, locks and catalog caches, the pending
\* work.  The logs and counters, which no decision reads, are left out.
Decisive ==
  [stock |-> stock, webhooks |-> webhooks,
   redis |-> [k \in {x \in DOMAIN redis :
                       x[1] \in {"inventory", "sync:lock", "products"}} |-> redis[k]],
   handlers |-> handlers, timers |-> timers, pendingSyncs |-> pendingSyncs,
   syncs |-> syncs]

\* Remember the state reached once the edits are over and the engine is
\* idle with notifications still to deliver.
MarkState ==
  /\ mark = Null
  /\ Idle /\ nOps = MaxOps /\ webhooks # {}
  /\ LogKeys(redis, "sync:lock") = {}
  /\ mark' = << [state |-> Decisive, nSyncs |-> nSyncs] >>
  /\ UNCHANGED << stock, webhooks, redis, handlers, timers, pendingSyncs, syncs,
                  lastCall, manualResult, now, nOps, nFail, nSyncs, tagged, nFetch,
                  clears, nClears >>

NextLoop ==
  \/ \E v \in 0..MaxQty : ExternalEdit(11, v)
  \/ \E k \in DOMAIN redis : ExpireLock(k)
  \/ \E n \in webhooks : Idle /\ HandleStart(n)
  \/ \E h \in handlers : HandleRead(h)
  \/ \E h \in handlers : HandleWrite(h)
  \/ \E t \in timers : Fire(t, LoopSyncs)
  \/ \E t \in syncs : SyncAdapter(t)
  \/ \E t \in syncs : SyncRead(t)
  \/ \E t \in syncs : SyncWrite(t)
  \/ MarkState

SpecLoop == Init /\ [][NextLoop]_vars

\* ------------------------------------------------------ steps, as observed
\* The timer t fires (it is not replaced by a later debounce call).
Fired(t) == t \in timers /\ t \notin timers' /\ pendingSyncs'[t.key] = Null

\* The adapter write of the reconciliation t is issued and succeeds.
Wrote(t) ==
  /\ t \in syncs /\ t.pc = "adapter" /\ t \notin syncs'
  /\ lastCall' # Null /\ lastCall'[1].ok

\* The handler h passes its snapshot write and its debounce call.
Debounced(h) == h \in handlers /\ h.pc = "write" /\ h \notin handlers'

\* The items of store s enrolled under identifier ean.
EnrolledItems(s, ean) ==
  LET ps == Pairs(getProductsByTag(s))
  IN {ps[i].variant.inventory_item_id :
        i \in {j \in 1..Len(ps) : ps[j].variant.barcode = ean}}

Quiescent == webhooks = {} /\ Idle

\* The items of the variants with barcode ean in a product list.
ItemsOf(products, ean) ==
  LET ps == Pairs(products)
  IN {ps[i].variant.inventory_item_id :
        i \in {j \in 1..Len(ps) : ps[j].variant.barcode = ean}}

\* The product list a lookup in store s searches: the cached one if there
\* is one, else the tagged catalog the store has now.
Searched(r, s) ==
  IF productsKey(s) \in DOMAIN r THEN JSONparse(r[productsKey(s)])
  ELSE getProductsByTag(s)

\* The number of catalog fetches a lookup in store s makes.
FetchesOf(r, s) == IF productsKey(s) \in DOMAIN r THEN 0 ELSE 1

\* The reconciliation u writes its target snapshot and log entry and returns.
Completed(u) == u \in syncs /\ u.pc = "write" /\ u \notin syncs'

\* The adapter write of the reconciliation u throws.
Failed(u) ==
  /\ u \in syncs /\ u.pc = "adapter" /\ u \notin syncs'
  /\ lastCall' # Null /\ ~lastCall'[1].ok

\* The entries of the sync log and of the error log.
LogEntries(r) == LogKeys(r, "sync:log") \cup LogKeys(r, "error:log")

\* The inventory snapshots and the echo-locks in the state store.
Snapshots(r) == [k \in LogKeys(r, "inventory") |-> r[k]]
Locks(r) == LogKeys(r, "sync:lock")

\* ------------------------------------------------------------------ claims
\* C1 (eventual agreement): once every delivered notification has been
\* handled, every timer has fired and every reconciliation has completed,
\* none of them with an adapter failure, the two stores hold the same
\* quantity for an identifier enrolled in both; stated for the runs without
\* a manual sync in which the engine has recorded a snapshot of it for
\* both stores.
C1_StoresAgreeWhenQuiescent ==
  (Quiescent /\ nFail = 0 /\ manualResult = "none"
     /\ \A s \in Stores : inventoryKey(s, "A") \in DOMAIN redis)
  => stock[11] = stock[21]

\* C2 (no feedback loop): after finitely many external edits the engine
\* issues finitely many adapter writes, the echoes of its own writes being
\* delivered before or after their lock expires.  So a run never comes back,
\* with more reconciliations behind it, to a state it has been in once the
\* edits were over: from there the same deliveries repeat for ever.
C2_NoFeedbackLoop ==
  mark # Null => ~(Decisive = mark[1].state /\ nSyncs > mark[1].nSyncs)

\* C3 (first sight is a full sync): a handler that finds no snapshot for
\* (sourceStore, identifier), and only such a handler, schedules with
\* previousAvailable null; when its timer fires, a full sync of the event's
\* absolute value starts if the counterpart is enrolled, and its adapter
\* write is setInventoryLevel of that value on the counterpart store, never
\* an adjustment.
C3_FullSyncWithoutSnapshot ==
  [][ /\ \A h \in handlers :
           (h.pc = "read" /\ h \notin handlers')
           => \E g \in handlers' :
                /\ g.pc = "write" /\ g.store = h.store /\ g.ean = h.ean
                /\ g.available = h.available
                /\ (g.previousAvailable = Null
                    <=> inventoryKey(h.store, h.ean) \notin DOMAIN redis)
      /\ \A t \in timers :
           (Fired(t) /\ t.previousAvailable = Null)
           => IF EnrolledItems(otherStore(t.sourceStore), t.ean) = {}
              THEN syncs' = syncs
              ELSE \E u \in syncs' :
                     /\ syncs' = syncs \cup {u}
                     /\ u.pc = "adapter" /\ u.kind = "full" /\ u.origin = "event"
                     /\ u.value = t.available /\ u.previousAvailable = Null
                     /\ u.sourceStore = t.sourceStore /\ u.ean = t.ean
                     /\ u.item \in EnrolledItems(otherStore(t.sourceStore), t.ean)
      /\ \A u \in syncs :
           (Wrote(u) /\ u.origin = "event" /\ u.previousAvailable = Null)
           => /\ lastCall'[1].op = "set" /\ lastCall'[1].arg = u.value
              /\ lastCall'[1].store = otherStore(u.sourceStore)
              /\ lastCall'[1].item = u.item
              /\ stock' = [stock EXCEPT ![u.item] = u.value] ]_vars

C3_Witness ==
  /\ lastCall # Null /\ lastCall[1].ok
  /\ lastCall[1].origin = "event" /\ lastCall[1].previousAvailable = Null
  /\ lastCall[1].op = "set" /\ stock[lastCall[1].item] = lastCall[1].available

\* C4 (zero delta is a no-op): when the timer of an event whose value
\* equals the snapshot its handler read fires, nothing is written: no
\* adapter call, no store changes, no echo-lock, no log entry, no
\* reconciliation starts; and no reconciliation of such an event is ever
\* in flight.
C4_ZeroDeltaWritesNothing ==
  [][ /\ \A t \in timers :
           (Fired(t) /\ t.previousAvailable # Null
              /\ t.available = t.previousAvailable[1])
           => UNCHANGED << stock, webhooks, redis, syncs, lastCall, nSyncs >>
      /\ \A u \in syncs' :
           (u.origin = "event" /\ u.previousAvailable # Null)
           => u.value # u.previousAvailable[1] ]_vars

C4_Witness ==
  \E t \in timers :
    /\ t.previousAvailable # Null /\ t.available = t.previousAvailable[1]
    /\ EnrolledItems(otherStore(t.sourceStore), t.ean) # {}

\* C5 (delta sync): for an event of value V whose handler read the
\* snapshot P, V # P, the timer starts a delta reconciliation if the
\* counterpart is enrolled, and its adapter write is adjustInventoryLevel
\* by exactly V - P on the counterpart store, never setInventoryLevel: the
\* counterpart's quantity changes by V - P.
C5_DeltaAdjustsByDifference ==
  [][ /\ \A t \in timers :
           (Fired(t) /\ t.previousAvailable # Null
              /\ t.available # t.previousAvailable[1]
              /\ EnrolledItems(otherStore(t.sourceStore), t.ean) # {})
           => \E u \in syncs' :
                /\ syncs' = syncs \cup {u}
                /\ u.pc = "adapter" /\ u.origin = "event"
                /\ u.value = t.available
                /\ u.previousAvailable = t.previousAvailable
                /\ u.sourceStore = t.sourceStore /\ u.ean = t.ean
                /\ u.item \in EnrolledItems(otherStore(t.sourceStore), t.ean)
      /\ \A u \in syncs :
           (Wrote(u) /\ u.origin = "event" /\ u.previousAvailable # Null)
           => LET D == u.value - u.previousAvailable[1]
              IN /\ D # 0
                 /\ lastCall'[1].op = "adjust" /\ lastCall'[1].arg = D
                 /\ lastCall'[1].store = otherStore(u.sourceStore)
                 /\ lastCall'[1].item = u.item
                 /\ stock' = [stock EXCEPT ![u.item] = stock[u.item] + D] ]_vars

C5_Witness ==
  /\ lastCall # Null /\ lastCall[1].ok
  /\ lastCall[1].origin = "event" /\ lastCall[1].op = "adjust"
  /\ lastCall[1].arg < 0
  /\ lastCall[1].arg = lastCall[1].available - lastCall[1].previousAvailable[1]

C7_CoalescedDeltaFromOriginalSnapshot ==
  [][ \A h \in handlers :
        (Debounced(h) /\ pendingSyncs[<< h.store, h.ean >>] # Null)
        => h.previousAvailable
             = pendingSyncs[<< h.store, h.ean >>][1].previousAvailable ]_vars

\* C8 (echo-lock drop): a notification at the sync location handled while
\* the lock of its (store, item) exists is dropped, and handling it changes
\* nothing else: no snapshot, no cache entry, no timer, no log, no counter.
C8_LockedEventChangesNothing ==
  [][ \A n \in webhooks :
        (n \notin webhooks' /\ n.location_id = locationId(n.store)
           /\ lockKey(n.store, n.inventory_item_id) \in DOMAIN redis)
        => /\ webhooks' = webhooks \ {n}
           /\ UNCHANGED << stock, redis, handlers, timers, pendingSyncs, syncs,
                           lastCall, manualResult, nSyncs >> ]_vars

C8_Witness ==
  \E n \in webhooks :
    /\ n.location_id = locationId(n.store)
    /\ n.inventory_item_id \in Tracked
    /\ lockKey(n.store, n.inventory_item_id) \in DOMAIN redis

\* C9 (lock before write): a reconciliation, delta, full or manual, has
\* the echo-lock of (targetStore, target item) in the state store from the
\* step it starts in, which comes before the step of its adapter write;
\* every adapter write is issued by a reconciliation that has set it.
C9_LockSetBeforeAdapterWrite ==
  [][ /\ \A u \in syncs' \ syncs :
           u.pc = "adapter"
           => /\ redisGet(redis', lockKey(u.targetStore, u.item)) = <<"1">>
              /\ u.locked = << << u.targetStore, u.item >> >>
      /\ \A u \in syncs' :
           u.pc = "adapter" => u.locked = << << u.targetStore, u.item >> >>
      /\ lastCall' # lastCall
         => /\ lastCall'[1].locked = << << lastCall'[1].store, lastCall'[1].item >> >>
            /\ \E u \in syncs :
                 /\ u.pc = "adapter" /\ u \notin syncs'
                 /\ u.targetStore = lastCall'[1].store /\ u.item = lastCall'[1].item ]_vars

C9_Witness ==
  /\ lastCall # Null /\ lastCall[1].ok /\ lastCall[1].origin = "manual"
  /\ \E u \in syncs :
       /\ u.pc = "adapter" /\ u.kind = "delta"
       /\ lockKey(u.targetStore, u.item) \in DOMAIN redis

\* C10 (target snapshot after a delta sync): a delta reconciliation reads
\* the target snapshot after its adapter write and then stores, for
\* (targetStore, identifier), v + d if it read a snapshot v, and the source
\* event's absolute value if it read none.
C10_TargetSnapshotAfterDelta ==
  [][ \A u \in syncs :
        /\ (u.pc = "read" /\ u \notin syncs')
           => \E w \in syncs' :
                /\ w.pc = "write" /\ w.kind = u.kind /\ w.ean = u.ean
                /\ w.targetStore = u.targetStore
                /\ w.delta = u.delta /\ w.value = u.value
                /\ w.cur = redisGet(redis, inventoryKey(u.targetStore, u.ean))
        /\ (u.pc = "write" /\ u.kind = "delta" /\ u \notin syncs')
           => /\ u.delta = u.value - u.previousAvailable[1]
              /\ inventoryKey(u.targetStore, u.ean) \in DOMAIN redis'
              /\ parseInt(redis'[inventoryKey(u.targetStore, u.ean)])
                   = IF u.cur # Null THEN parseInt(u.cur) + u.delta ELSE u.value
              /\ redis'[inventoryKey(u.targetStore, u.ean)]
                   = toString(parseInt(redis'[inventoryKey(u.targetStore, u.ean)])) ]_vars

\* A delta sync has completed: its log entry is written and the target
\* snapshot is in the state store.
C10_Witness ==
  \E k \in LogKeys(redis, "sync:log") :
    LET e == JSONparse(redis[k])
    IN /\ e.type = "delta"
       /\ inventoryKey(e.targetStore, e.ean) \in DOMAIN redis

C12_ReplayIsNoOp ==
  [][ /\ \A h \in handlers :
           (h.pc = "read" /\ h \notin handlers'
              /\ redisGet(redis, inventoryKey(h.store, h.ean)) = toString(h.available))
           => \E g \in handlers' :
                /\ g.pc = "write" /\ g.store = h.store /\ g.ean = h.ean
                /\ g.available = h.available
                /\ g.previousAvailable = << h.available >> /\ g.delta = 0
      /\ \A h \in handlers :
           (Debounced(h) /\ h.delta = 0 /\ h.previousAvailable # Null)
           => /\ \E t \in timers' :
                   /\ t.key = << h.store, h.ean >> /\ t.delta = 0
                   /\ t.previousAvailable = h.previousAvailable
              /\ Locks(redis') = Locks(redis) /\ LogEntries(redis') = LogEntries(redis)
              /\ totalSyncs(redis') = totalSyncs(redis)
              /\ totalErrors(redis') = totalErrors(redis)
              /\ UNCHANGED << stock, webhooks, syncs, lastCall, nSyncs >>
      /\ \A t \in timers :
           (Fired(t) /\ t.delta = 0 /\ t.previousAvailable # Null)
           => UNCHANGED << stock, webhooks, redis, syncs, lastCall, nSyncs >> ]_vars

\* The full sync of an event of (store1, A) is logged, and a timer of the
\* same value with delta 0 is pending: the event was handled again.
C12_Witness ==
  \E t \in timers :
    /\ t.delta = 0 /\ t.previousAvailable = << t.available >>
    /\ \E k \in LogKeys(redis, "sync:log") :
         LET e == JSONparse(redis[k])
         IN /\ e.sourceStore = t.sourceStore /\ e.ean = t.ean
            /\ e.type = "full" /\ e.value = t.available

\* C13 (target snapshot predicts the echo): when a reconciliation has
\* completed, the target snapshot it leaves is the quantity its adapter
\* write left in the target store, the value the return notification
\* reports.
C13_TargetSnapshotIsTargetQuantity ==
  [][ \A u \in syncs :
        Completed(u)
        => redisGet(redis', inventoryKey(u.targetStore, u.ean))
             = toString(u.level[1]) ]_vars

\* C14 (NotEnrolled): when the timer of an event that calls for a delta or
\* a full sync fires and the counterpart store has no enrolled product of
\* the identifier, nothing is reconciled: no echo-lock is set, no adapter
\* write is issued, no snapshot is written, the error log and
\* error:count:total stay as they are; a manual sync that meets the same
\* returns to its caller without an error and has written none of these.
C14_NotEnrolledStops ==
  [][ /\ \A t \in timers :
           (Fired(t)
              /\ (t.previousAvailable = Null \/ t.available # t.previousAvailable[1])
              /\ EnrolledItems(otherStore(t.sourceStore), t.ean) = {})
           => /\ Locks(redis') = Locks(redis)
              /\ Snapshots(redis') = Snapshots(redis)
              /\ LogEntries(redis') = LogEntries(redis)
              /\ totalErrors(redis') = totalErrors(redis)
              /\ UNCHANGED << stock, webhooks, syncs, lastCall, manualResult,
                              nFail, nSyncs >>
      /\ (manualResult' = "ok" /\ syncs' = syncs /\ nOps' = nOps + 1
            /\ UNCHANGED << stock, webhooks, now, nFail >>)
         => /\ Locks(redis') = Locks(redis)
            /\ Snapshots(redis') = Snapshots(redis)
            /\ LogEntries(redis') = LogEntries(redis)
            /\ totalErrors(redis') = totalErrors(redis)
            /\ UNCHANGED << lastCall, nSyncs >> ]_vars

\* One event has happened, for (store1, B), which store2 does not enroll:
\* its snapshot is stored, store2's catalog has been looked up, the timer
\* has fired and no reconciliation has started.
C14_Witness ==
  /\ Quiescent /\ nOps = 1 /\ nSyncs = 0 /\ nFail = 0
  /\ inventoryKey("store1", "B") \in DOMAIN redis
  /\ productsKey("store2") \in DOMAIN redis
  /\ Locks(redis) = {} /\ lastCall = Null

\* C15 (manual sync reports a missing counterpart): manualSync returns
\* an error, not success, when the identifier is enrolled in one store
\* only; so a manual sync that has returned success has started a
\* reconciliation.
C15_ManualSyncSuccessMeansReconciled ==
  manualResult = "ok" => nSyncs > 0

\* C16 (failed timer reconciliation is logged): when the adapter write of
\* a reconciliation started by a fired timer throws, one entry is added to
\* the error log and error:count:total goes up by one.
C16_TimerFailureIsLogged ==
  [][ \A u \in syncs :
        (Failed(u) /\ u.origin = "event")
        => /\ totalErrors(redis') = totalErrors(redis) + 1
           /\ Cardinality(LogKeys(redis', "error:log"))
                = Cardinality(LogKeys(redis, "error:log")) + 1 ]_vars

\* C17 (one log entry per outcome): every outcome of an event adds exactly
\* one entry to the sync log or the error log: an event dropped by a filter
\* or the echo-lock or failing in its handler, a superseded event, a timer
\* firing without a reconciliation (zero delta, NotEnrolled), a completed
\* reconciliation, a failed one.
C17_OneLogEntryPerOutcome ==
  [][ /\ \A n \in webhooks :
           (n \notin webhooks' /\ handlers' = handlers)
           => Cardinality(LogEntries(redis')) = Cardinality(LogEntries(redis)) + 1
      /\ \A h \in handlers :
           (Debounced(h) /\ pendingSyncs[<< h.store, h.ean >>] # Null)
           => Cardinality(LogEntries(redis')) = Cardinality(LogEntries(redis)) + 1
      /\ \A t \in timers :
           (Fired(t) /\ syncs' = syncs)
           => Cardinality(LogEntries(redis')) = Cardinality(LogEntries(redis)) + 1
      /\ \A u \in syncs :
           (Completed(u) \/ Failed(u))
           => Cardinality(LogEntries(redis')) = Cardinality(LogEntries(redis)) + 1 ]_vars

\* C18 (counters): sync:count:total and error:count:total never decrease;
\* sync:count:total goes up by one in the step that completes a
\* reconciliation and in no other step (not when a timer fires without a
\* write, not when the counterpart is not enrolled, not when the adapter
\* write fails) and counts the entries of the sync log; error:count:total
\* goes up by one in the step in which the handler's catch logs a failure
\* and in no other step.
C18_CountersCountExactly ==
  [][ /\ totalSyncs(redis') >= totalSyncs(redis)
      /\ totalErrors(redis') >= totalErrors(redis)
      /\ totalSyncs(redis')
           = totalSyncs(redis) + (IF \E u \in syncs : Completed(u) THEN 1 ELSE 0)
      /\ totalSyncs(redis') = Cardinality(LogKeys(redis', "sync:log"))
      /\ totalErrors(redis')
           = totalErrors(redis)
             + (IF \E n \in webhooks : n \notin webhooks' /\ nFail' = nFail + 1
                THEN 1 ELSE 0) ]_vars

\* One reconciliation has completed and is counted; the adapter write of
\* another has failed and neither counter has moved for it.
C18_Witness ==
  /\ totalSyncs(redis) = 1 /\ totalErrors(redis) = 0
  /\ nSyncs = 2 /\ nFail = 1 /\ syncs = {}
  /\ lastCall # Null /\ ~lastCall[1].ok

\* C19 (failed write leaves the snapshots alone): when the adapter write
\* of an event's reconciliation throws, the source snapshot of the
\* identifier is what the event's handler found when the event came in.
C19_FailedWriteKeepsSnapshots ==
  [][ \A u \in syncs :
        (Failed(u) /\ u.origin = "event")
        => redisGet(redis', inventoryKey(u.sourceStore, u.ean))
             = IF u.previousAvailable = Null THEN Null
               ELSE toString(u.previousAvailable[1]) ]_vars

\* The notification n is outside the sync scope: another location, or an
\* item that is no variant with a barcode of a tagged product.
OutOfScope(n) ==
  \/ n.location_id # locationId(n.store)
  \/ \A ean \in Eans : n.inventory_item_id \notin EnrolledItems(n.store, ean)

\* The handler of the out-of-scope notification n runs and returns, no
\* request of its own having failed.
FilterDropped(n) ==
  n \in webhooks /\ n \notin webhooks' /\ OutOfScope(n) /\ nFail' = nFail

\* C20 (filtered events change nothing), as the code has it: an event
\* dropped by an inbound filter changes no snapshot, lock, timer, log entry
\* or counter and starts nothing; the one thing it may write is the
\* catalog cache entry of its own store, when the event is at the sync
\* location and that entry is absent: it is then set to the store's tagged
\* catalog.
C20_FilteredEventWritesAtMostCatalogCache ==
  [][ \A n \in webhooks :
        FilterDropped(n)
        => /\ webhooks' = webhooks \ {n}
           /\ UNCHANGED << stock, handlers, timers, pendingSyncs, syncs, lastCall,
                           manualResult, nSyncs >>
           /\ \A k \in (DOMAIN redis \cup DOMAIN redis') \ {productsKey(n.store)} :
                redisGet(redis', k) = redisGet(redis, k)
           /\ n.location_id # locationId(n.store) => redis' = redis
           /\ productsKey(n.store) \in DOMAIN redis => redis' = redis
           /\ redis' # redis
              => redis'[productsKey(n.store)] = JSONstringify(getProductsByTag(n.store)) ]_vars

\* One notification has been sent, for an item of store1 outside the sync
\* scope; it has been handled, and the catalog cache of store1 is all the
\* state store holds.
C20_Witness ==
  /\ Quiescent /\ nOps = 1 /\ nFail = 0 /\ manualResult = "none"
  /\ DOMAIN redis = {productsKey("store1")}
  /\ \A i \in Tracked : stock[i] = 0

\* C20 as stated: an event dropped by an inbound filter changes no engine
\* state at all, the catalog cache included.
C20_FilteredEventChangesNothing ==
  [][ \A n \in webhooks :
        FilterDropped(n)
        => /\ webhooks' = webhooks \ {n}
           /\ UNCHANGED << stock, redis, handlers, timers, pendingSyncs, syncs,
                           lastCall, manualResult, nSyncs >> ]_vars

\* C21 (zero delta keeps the pending action): when the handler of an
\* event whose value equals the snapshot it read (delta 0) reaches its
\* snapshot write and debounce call while a timer of its key is pending,
\* nothing changes: the pending timer stays in place, with the
\* reconciliation it carries, and the snapshot is as it was.
C21_ZeroDeltaKeepsPendingTimer ==
  [][ \A h \in handlers :
        (Debounced(h) /\ h.previousAvailable # Null /\ h.delta = 0
           /\ pendingSyncs[<< h.store, h.ean >>] # Null)
        => UNCHANGED << timers, pendingSyncs, redis >> ]_vars

\* C22 (catalog lookup): a lookup that misses the cache fetches the tagged
\* catalog once, stores the whole result under products:<store>:<tag> and
\* searches it; a lookup that hits makes no fetch, leaves the entry as it
\* is and answers from the cached list alone, whatever the store's catalog
\* is by then.  Stated for the lookup by item of a handler (a handler
\* continues exactly for a variant with a barcode of the list searched) and
\* the lookup by identifier of a fired timer (a reconciliation starts
\* exactly when the list searched has a variant of the identifier, and on
\* that variant's item).
C22_LookupSearchesCacheOrFetchesOnce ==
  [][ /\ \A n \in webhooks :
           (n \notin webhooks' /\ n.location_id = locationId(n.store)
              /\ lockKey(n.store, n.inventory_item_id) \notin DOMAIN redis
              /\ nFail' = nFail)
           => LET searched == Searched(redis, n.store)
              IN /\ nFetch' = nFetch + FetchesOf(redis, n.store)
                 /\ redisGet(redis', productsKey(n.store)) = JSONstringify(searched)
                 /\ productsKey(n.store) \in DOMAIN redis => redis' = redis
                 /\ IF \E ean \in Eans : n.inventory_item_id \in ItemsOf(searched, ean)
                    THEN \E h \in handlers' :
                           /\ h.pc = "read" /\ h.store = n.store
                           /\ h.available = n.available
                           /\ n.inventory_item_id \in ItemsOf(searched, h.ean)
                    ELSE handlers' = handlers
      /\ \A t \in timers :
           (Fired(t) /\ nFail' = nFail
              /\ callbackBranch(t.previousAvailable, t.delta, t.available) # "noop")
           => LET targetStore == otherStore(t.sourceStore)
                  searched == Searched(redis, targetStore)
              IN /\ nFetch' = nFetch + FetchesOf(redis, targetStore)
                 /\ redisGet(redis', productsKey(targetStore)) = JSONstringify(searched)
                 /\ IF ItemsOf(searched, t.ean) = {}
                    THEN syncs' = syncs
                    ELSE \E u \in syncs' :
                           /\ u.pc = "adapter" /\ u.targetStore = targetStore
                           /\ u.ean = t.ean /\ u.item \in ItemsOf(searched, t.ean) ]_vars

\* A timer that calls for a reconciliation is pending while the cached
\* catalog of its target store, fetched earlier, is no longer the catalog
\* the store has.
C22_Witness ==
  \E t \in timers :
    /\ callbackBranch(t.previousAvailable, t.delta, t.available) # "noop"
    /\ productsKey(otherStore(t.sourceStore)) \in DOMAIN redis
    /\ JSONparse(redis[productsKey(otherStore(t.sourceStore))])
         # getProductsByTag(otherStore(t.sourceStore))
    /\ nFetch >= 2

\* C23 (failed refresh): when the catalog fetch of a lookup that missed
\* the cache throws, the entry of that store stays absent and the caller
\* gets the failure instead of an answer: the handler logs it and goes no
\* further, the fired timer starts no reconciliation, manualSync returns
\* an error; nothing is written to a store.  In every step a catalog cache
\* entry is what it was, or is gone, or was absent and is now the whole
\* tagged catalog of its store.
C23_FailedRefreshLeavesCacheAbsent ==
  [][ /\ (nFail' = nFail + 1 /\ nFetch' > nFetch)
         => /\ \A n \in webhooks \ webhooks' :
                 /\ productsKey(n.store) \notin DOMAIN redis
                 /\ productsKey(n.store) \notin DOMAIN redis'
                 /\ totalErrors(redis') = totalErrors(redis) + 1
            /\ \A t \in timers \ timers' :
                 /\ productsKey(otherStore(t.sourceStore)) \notin DOMAIN redis
                 /\ productsKey(otherStore(t.sourceStore)) \notin DOMAIN redis'
            /\ (webhooks' = webhooks /\ timers' = timers)
               => /\ manualResult' = "error"
                  /\ \E s \in Stores : productsKey(s) \notin DOMAIN redis'
            /\ handlers' = handlers /\ syncs' = syncs
            /\ UNCHANGED << stock, lastCall, nSyncs >>
      /\ \A s \in Stores :
           productsKey(s) \in DOMAIN redis'
           => \/ redis'[productsKey(s)] = redisGet(redis, productsKey(s))
              \/ /\ productsKey(s) \notin DOMAIN redis
                 /\ redis'[productsKey(s)] = JSONstringify(getProductsByTag(s)) ]_vars

\* An edit of store1 was notified and the catalog fetch of its handler
\* failed: the error is logged and store1 has no catalog cache entry.
C23_Witness ==
  /\ nOps = 2 /\ nFail = 1 /\ nFetch = 1 /\ webhooks = {}
  /\ totalErrors(redis) = 1
  /\ productsKey("store1") \notin DOMAIN redis

\* C24 (append-only logs): writing a log entry leaves every stored entry
\* in place with its content, so the error log holds as many entries as
\* logError was called (error:count:total) and the sync log as many as
\* logSyncEvent was called (sync:count:total), also for entries written at
\* one timestamp.
C24_LogEntriesAppendOnly ==
  [][ /\ \A k \in LogEntries(redis) : redisGet(redis', k) = redis[k]
      /\ Cardinality(LogKeys(redis', "error:log")) = totalErrors(redis')
      /\ Cardinality(LogKeys(redis', "sync:log")) = totalSyncs(redis') ]_vars

\* C25 (most recent log entries): getLogs(N) returns at most N entries,
\* the most recently written ones, newest first; so right after a
\* reconciliation has written its entry, getLogs(1) returns that entry, and
\* getLogs(2) returns it first.
C25_GetLogsReturnsNewest ==
  [][ \A u \in syncs :
        Completed(u)
        => /\ \A N \in 0..2 : Len(getLogs(redis', N)) <= N
           /\ \A k \in LogKeys(redis', "sync:log") \ LogKeys(redis, "sync:log") :
                /\ getLogs(redis', 1) = << JSONparse(redis'[k]) >>
                /\ getLogs(redis', 2)[1] = JSONparse(redis'[k]) ]_vars

\* C26 (round trip): in the state the successful adapter write of a full
\* sync of x leaves, getInventoryLevel for the written item at the target
\* store's location returns x; it still does when the reconciliation
\* completes, if the item was not written in between.
C26_FullSyncRoundTrip ==
  [][ /\ \A u \in syncs :
           (Wrote(u) /\ u.kind = "full")
           => /\ getInventoryLevel(stock', u.item).available = u.value
              /\ lastCall'[1].op = "set" /\ lastCall'[1].item = u.item
              /\ lastCall'[1].location = locationId(u.targetStore)
      /\ \A u \in syncs :
           (Completed(u) /\ u.kind = "full" /\ lastCall # Null /\ lastCall[1].ok
              /\ lastCall[1].item = u.item /\ lastCall[1].op = "set"
              /\ lastCall[1].arg = u.value /\ stock[u.item] = u.level[1])
           => getInventoryLevel(stock', u.item).available = u.value ]_vars

\* The first reconciliation of the run, a full sync of 0 to store2, has
\* just made its adapter write, and store2 holds 0.
C26_Witness ==
  /\ lastCall # Null /\ lastCall[1].ok /\ lastCall[1].op = "set"
  /\ lastCall[1].arg = 0 /\ lastCall[1].item = 21
  /\ nOps = 1 /\ nSyncs = 1
  /\ \E u \in syncs : u.pc = "write" /\ u.kind = "full" /\ u.level = << 0 >>
  /\ getInventoryLevel(stock, 21).available = 0

\* The key k is idle: no timer pending, no reconciliation in flight.
KeyIdle(k) ==
  /\ pendingSyncs[k] = Null
  /\ \A u \in syncs : << u.sourceStore, u.ean >> # k

\* C27 (Idle -> Debouncing -> Reconciling -> Idle, per key): a key has at
\* most one live timer and pendingSyncs holds exactly it; the entry of a
\* key is removed in the step in which its timer fires and in no other; a
\* reconciliation starts only in such a step.  Under fair scheduling every
\* reconciliation in flight ends, and a key whose timer is pending comes
\* back to idle once the events have stopped.
C27_KeyLifecycle ==
  /\ [][ /\ \A k \in Keys :
              /\ Cardinality({t \in timers' : t.key = k}) <= 1
              /\ pendingSyncs'[k] # Null => pendingSyncs'[k][1] \in timers'
              /\ \A t \in timers' : t.key = k => pendingSyncs'[k] = << t >>
              /\ (pendingSyncs[k] # Null /\ pendingSyncs'[k] = Null)
                 <=> \E t \in timers :
                       /\ t.key = k /\ t \notin timers'
                       /\ \A x \in timers' : x.key # k
         /\ \A u \in syncs' \ syncs :
              (u.pc = "adapter" /\ u.origin = "event")
              => \E t \in timers \ timers' :
                   /\ t.key = << u.sourceStore, u.ean >>
                   /\ pendingSyncs'[t.key] = Null ]_vars
  /\ (syncs # {}) ~> (syncs = {})
  /\ (pendingSyncs[<< "store1", "A" >>] # Null) ~> KeyIdle(<< "store1", "A" >>)

\* The timer of (store1, A) has fired and its reconciliation is in flight:
\* the key has no entry in pendingSyncs.
C27_Witness ==
  /\ pendingSyncs[<< "store1", "A" >>] = Null
  /\ \E u \in syncs :
       /\ u.sourceStore = "store1" /\ u.ean = "A" /\ u.origin = "event"
       /\ u.pc = "adapter"
  /\ timers = {} /\ nOps = 1

\* The reconciliation u goes on in this step or stays as it is: it is
\* still in flight, or it has made the adapter write, read the target
\* snapshot, completed or failed.
RunsOn(u) ==
  \/ u \in syncs'
  \/ Wrote(u) \/ Completed(u) \/ Failed(u)
  \/ /\ u.pc = "read"
     /\ \E w \in syncs' : w = [u EXCEPT !.pc = "write", !.cur = w.cur]

\* C28 (an event during a reconciliation): a handler that reaches debounce
\* sets a timer of its event for its key, also while a reconciliation of
\* the same key is in flight, and leaves every reconciliation in flight as
\* it is; in every step a reconciliation in flight stays or goes on by a
\* step of its own, up to its completion or failure; a timer is removed
\* only by firing or by a debounce call for its key while it is pending.
C28_EventDuringReconciliation ==
  [][ /\ \A h \in handlers :
           Debounced(h)
           => /\ \E t \in timers' :
                   /\ pendingSyncs'[<< h.store, h.ean >>] = << t >>
                   /\ t.sourceStore = h.store /\ t.ean = h.ean
                   /\ t.available = h.available
                   /\ t.previousAvailable = h.previousAvailable
              /\ syncs' = syncs
              /\ UNCHANGED << stock, lastCall, nSyncs >>
      /\ \A u \in syncs : RunsOn(u)
      /\ \A t \in timers \ timers' :
           /\ pendingSyncs[t.key] = << t >>
           /\ \/ pendingSyncs'[t.key] = Null
              \/ \E h \in handlers :
                   Debounced(h) /\ << h.store, h.ean >> = t.key ]_vars

\* A handler of an event of (store1, A) is about to call debounce while a
\* reconciliation of (store1, A) is in flight, its adapter write not yet
\* made, and no timer of the key is pending.
C28_Witness ==
  \E h \in handlers, u \in syncs :
    /\ h.pc = "write" /\ h.store = u.sourceStore /\ h.ean = u.ean
    /\ u.origin = "event" /\ u.pc = "adapter"
    /\ pendingSyncs[<< h.store, h.ean >>] = Null

\* C29 (keys are independent): the debounce call of a handler of
\* (store, identifier) leaves the pendingSyncs entry and the live timer of
\* every other key as they are: those of other identifiers, and those of
\* the same identifier for the other store.
C29_DebounceLeavesOtherKeys ==
  [][ \A h \in handlers :
        Debounced(h)
        => \A k \in Keys \ {<< h.store, h.ean >>} :
             /\ pendingSyncs'[k] = pendingSyncs[k]
             /\ {t \in timers' : t.key = k} = {t \in timers : t.key = k}
             /\ \A t \in timers' :
                  (t.sourceStore = h.store /\ t.ean = h.ean) => t.key # k ]_vars

\* A handler of an event of (store2, A) is about to call debounce while the
\* timer of (store1, A) is pending.
C29_Witness ==
  \E h \in handlers :
    /\ h.pc = "write" /\ h.store = "store2" /\ h.ean = "A"
    /\ pendingSyncs[<< "store1", "A" >>] # Null
    /\ pendingSyncs[<< "store1", "A" >>][1] \in timers

\* C30 (writes go to the other store): a reconciliation of an event or a
\* manual sync of sourceStore targets the other store: the echo-lock it
\* sets is one of the target store and of an item of the target store, its
\* adapter write is addressed to the target store, its location and that
\* item, and changes no quantity of the source store, and the snapshot it
\* writes is the target store's; the source store gets no lock, no adapter
\* write and no snapshot from it.
C30_ReconciliationTargetsOtherStore ==
  [][ /\ \A u \in syncs' \ syncs :
           u.pc = "adapter"
           => /\ u.targetStore \in Stores \ {u.sourceStore}
              /\ StoreOf(u.item) = u.targetStore
              /\ Locks(redis') \ Locks(redis) \subseteq {lockKey(u.targetStore, u.item)}
              /\ lockKey(u.targetStore, u.item) \in Locks(redis')
              /\ \A t \in timers \ timers' : u.sourceStore = t.sourceStore
      /\ \A k \in Locks(redis') \ Locks(redis) :
           /\ nSyncs' = nSyncs + 1
           /\ \E u \in syncs' :
                /\ u.pc = "adapter" /\ k = lockKey(u.targetStore, u.item)
                /\ u.targetStore # u.sourceStore
      /\ \A u \in syncs :
           Wrote(u) \/ Failed(u)
           => /\ lastCall'[1].store = u.targetStore
              /\ lastCall'[1].store # u.sourceStore
              /\ lastCall'[1].item = u.item
              /\ lastCall'[1].location = locationId(u.targetStore)
              /\ \A i \in Tracked : StoreOf(i) = u.sourceStore => stock'[i] = stock[i]
      /\ \A u \in syncs :
           Completed(u)
           => /\ inventoryKey(u.targetStore, u.ean) \in DOMAIN redis'
              /\ \A k \in DOMAIN Snapshots(redis) \cup DOMAIN Snapshots(redis') :
                   k # inventoryKey(u.targetStore, u.ean)
                   => redisGet(redis', k) = redisGet(redis, k) ]_vars

\* A manual sync from store2 has written store1: the lock of store1's item
\* is the only lock and store2 has none.
C30_Witness ==
  /\ lastCall # Null /\ lastCall[1].ok /\ lastCall[1].origin = "manual"
  /\ lastCall[1].sourceStore = "store2" /\ lastCall[1].store = "store1"
  /\ lastCall[1].item = 11
  /\ Locks(redis) = {lockKey("store1", 11)}
  /\ inventoryKey("store1", "A") \in DOMAIN redis

\* The state store r without the key k.
Without(r, k) == [x \in DOMAIN r \ {k} |-> r[x]]

\* C31 (cache invalidation): clearCache(identifier, store) deletes the
\* inventory snapshot of (store, identifier), then the catalog cache of the
\* store; clearCache without an identifier and refreshCache delete the
\* catalog cache of the store; each of these steps deletes exactly its key
\* and changes nothing else: no other snapshot, no entry of the other
\* store, no lock, log, counter or timer.  No other step deletes a
\* snapshot.  With the snapshot of (store, identifier) gone, the handler of
\* the next event of the pair reads none and schedules a full sync, which
\* its timer starts; a deleted snapshot comes back only when a handler of
\* the pair stores its event's value or a reconciliation that targets the
\* pair completes.
C31_ClearCacheDeletesOnlyItsEntries ==
  [][ /\ nClears' = nClears + 1
         => /\ \E s \in Stores :
                 \/ /\ redis' = Without(redis, productsKey(s))
                    /\ clears' = clears
                 \/ \E ean \in Eans :
                      /\ redis' = Without(redis, inventoryKey(s, ean))
                      /\ clears' = clears \cup {[ean |-> ean, storeName |-> s]}
            /\ UNCHANGED << stock, webhooks, handlers, timers, pendingSyncs, syncs,
                            lastCall, manualResult, nSyncs, nFail >>
      /\ (clears' # clears /\ nClears' = nClears)
         => /\ \E c \in clears :
                 /\ clears' = clears \ {c}
                 /\ redis' = Without(redis, productsKey(c.storeName))
            /\ UNCHANGED << stock, webhooks, handlers, timers, pendingSyncs, syncs,
                            lastCall, manualResult, nSyncs, nFail >>
      /\ \A k \in DOMAIN Snapshots(redis) :
           k \notin DOMAIN redis' => nClears' = nClears + 1
      /\ \A k \in DOMAIN Snapshots(redis') \ DOMAIN Snapshots(redis) :
           \/ \E h \in handlers : Debounced(h) /\ k = inventoryKey(h.store, h.ean)
           \/ \E u \in syncs : Completed(u) /\ k = inventoryKey(u.targetStore, u.ean)
      /\ \A h \in handlers :
           (h.pc = "read" /\ h \notin handlers'
              /\ inventoryKey(h.store, h.ean) \notin DOMAIN redis)
           => \E g \in handlers' :
                /\ g.pc = "write" /\ g.store = h.store /\ g.ean = h.ean
                /\ g.available = h.available /\ g.previousAvailable = Null
      /\ \A t \in timers :
           (Fired(t) /\ t.previousAvailable = Null
              /\ EnrolledItems(otherStore(t.sourceStore), t.ean) # {})
           => \E u \in syncs' :
                /\ u.pc = "adapter" /\ u.kind = "full" /\ u.value = t.available
                /\ u.sourceStore = t.sourceStore /\ u.ean = t.ean ]_vars

\* clearCache("A", "store1") has returned after a full sync of an event of
\* (store1, A) had completed: the snapshot of (store1, A) and the catalog
\* cache of store1 are gone, the snapshot and the catalog cache of store2
\* and the lock of store2's item are in place, and the notification of the
\* next event of store1 is waiting with no handler in flight.
C31_Witness ==
  /\ nClears = 1 /\ clears = {}
  /\ inventoryKey("store1", "A") \notin DOMAIN redis
  /\ productsKey("store1") \notin DOMAIN redis
  /\ inventoryKey("store2", "A") \in DOMAIN redis
  /\ productsKey("store2") \in DOMAIN redis
  /\ lockKey("store2", 21) \in DOMAIN redis
  /\ \E k \in LogKeys(redis, "sync:log") :
       JSONparse(redis[k]).sourceStore = "store1" /\ JSONparse(redis[k]).type = "full"
  /\ handlers = {} /\ timers = {} /\ syncs = {}
  /\ \E n \in webhooks : n.store = "store1" /\ n.inventory_item_id = 11

\* The identifiers under which the cached or, failing that, the live
\* tagged catalog of a notification's store lists its item.
EansOf(r, n) == {ean \in Eans : n.inventory_item_id \in ItemsOf(Searched(r, n.store), ean)}

C33_ManualSyncIsFullSyncOfLiveLevel ==
  [][ /\ (nOps' = nOps + 1 /\ nSyncs' = nSyncs + 1)
         => /\ \E u \in syncs' :
                 /\ syncs' = syncs \cup {u}
                 /\ u.origin = "manual" /\ u.kind = "full" /\ u.pc = "adapter"
                 /\ u.targetStore = otherStore(u.sourceStore)
                 /\ \E i \in ItemsOf(Searched(redis, u.sourceStore), u.ean) :
                      u.value = stock[i]
                 /\ u.item \in ItemsOf(Searched(redis', u.targetStore), u.ean)
                 /\ redisGet(redis', lockKey(u.targetStore, u.item)) = <<"1">>
            /\ Snapshots(redis') = Snapshots(redis)
            /\ UNCHANGED << stock, webhooks, handlers, timers, pendingSyncs, lastCall >>
      /\ \A u \in syncs' : u.origin = "manual" => u.kind = "full"
      /\ \A u \in syncs :
           (Wrote(u) /\ u.origin = "manual")
           => /\ lastCall'[1].op = "set" /\ lastCall'[1].arg = u.value
              /\ lastCall'[1].store = u.targetStore /\ lastCall'[1].item = u.item
              /\ stock' = [stock EXCEPT ![u.item] = u.value]
              /\ UNCHANGED << redis, timers, pendingSyncs >>
      /\ \A u \in syncs :
           (Completed(u) /\ u.origin = "manual")
           => /\ redisGet(redis', inventoryKey(u.targetStore, u.ean)) = toString(u.value)
              /\ redisGet(redis', inventoryKey(u.sourceStore, u.ean))
                   = redisGet(redis, inventoryKey(u.sourceStore, u.ean))
              /\ UNCHANGED << timers, pendingSyncs >> ]_vars

\* The full sync of a manual sync of (A, store1) has written 1 to store2
\* while the timer of an event of (store1, A) is still pending and store1
\* holds 1.
C33_Witness ==
  /\ lastCall # Null /\ lastCall[1].ok /\ lastCall[1].origin = "manual"
  /\ lastCall[1].op = "set" /\ lastCall[1].arg = 1
  /\ lastCall[1].sourceStore = "store1" /\ lastCall[1].ean = "A"
  /\ stock[11] = 1 /\ stock[21] = 1
  /\ pendingSyncs[<< "store1", "A" >>] # Null
  /\ \E u \in syncs : u.origin = "manual" /\ u.pc = "write"

\* C34 (the source snapshot follows the accepted events): the handler of
\* an event that has passed the filters stores the event's value as the
\* snapshot of (sourceStore, identifier) in the step in which it schedules
\* the timer, so that every pending timer has been scheduled with the
\* snapshot already overwritten; it does so also when its debounce call
\* supersedes a pending timer.  The firing of a timer, with or without an
\* enrolled counterpart, the adapter write of a reconciliation, its
\* failure and its completion leave the snapshot of the source pair as it
\* is: whatever becomes of the reconciliation, the value of the latest
\* accepted event stays stored.
C34_SourceSnapshotIsLatestAcceptedEvent ==
  [][ /\ \A h \in handlers :
           Debounced(h)
           => /\ redisGet(redis', inventoryKey(h.store, h.ean)) = toString(h.available)
              /\ parseInt(redis'[inventoryKey(h.store, h.ean)]) = h.available
              /\ \E t \in timers' :
                   /\ pendingSyncs'[<< h.store, h.ean >>] = << t >>
                   /\ t.available = h.available
      /\ \A t \in timers' \ timers :
           redisGet(redis', inventoryKey(t.sourceStore, t.ean)) = toString(t.available)
      /\ \A t \in timers :
           Fired(t)
           => redisGet(redis', inventoryKey(t.sourceStore, t.ean))
                = redisGet(redis, inventoryKey(t.sourceStore, t.ean))
      /\ \A u \in syncs :
           (Wrote(u) \/ Failed(u) \/ Completed(u))
           => redisGet(redis', inventoryKey(u.sourceStore, u.ean))
                = redisGet(redis, inventoryKey(u.sourceStore, u.ean)) ]_vars

\* The adapter write of the reconciliation of the one event of the run,
\* 1 for (store1, A), has failed: nothing reached store2, and the snapshot
\* of (store1, A) is 1.
C34_Witness ==
  /\ nOps = 2 /\ nFail = 1 /\ nSyncs = 1 /\ Quiescent
  /\ lastCall # Null /\ ~lastCall[1].ok /\ lastCall[1].origin = "event"
  /\ lastCall[1].sourceStore = "store1" /\ lastCall[1].available = 1
  /\ redisGet(redis, inventoryKey("store1", "A")) = <<"1">>
  /\ inventoryKey("store2", "A") \notin DOMAIN redis
  /\ stock[11] = 1

\* C35 (no lost snapshot update): the target snapshot a delta sync that
\* has read a snapshot stores is the snapshot the state store holds at
\* that moment plus its delta, whatever was written to the key since the
\* reconciliation read it: the update is applied on top of the other one,
\* so that two delta syncs d1 and d2 against v leave v + d1 + d2.
C35_TargetSnapshotUpdateNotLost ==
  [][ \A u \in syncs :
        (Completed(u) /\ u.kind = "delta" /\ u.cur # Null
           /\ inventoryKey(u.targetStore, u.ean) \in DOMAIN redis)
        => parseInt(redis'[inventoryKey(u.targetStore, u.ean)])
             = parseInt(redis[inventoryKey(u.targetStore, u.ean)]) + u.delta ]_vars

\* C36 (locks go by expiry only): an echo-lock leaves the state store
\* only in a step that does nothing else, the running out of its TTL: no
\* handler, timer, reconciliation, manual sync, clearCache or refreshCache
\* step removes one.  When the adapter write of a reconciliation throws,
\* the locks stay as they are, that of its target item included, and the
\* target store has not changed.
C36_LocksGoOnlyByExpiry ==
  [][ /\ \A k \in Locks(redis) \ Locks(redis') :
           /\ redis' = Without(redis, k)
           /\ UNCHANGED << stock, webhooks, handlers, timers, pendingSyncs, syncs,
                           lastCall, manualResult, now, nOps, nFail, nSyncs, nFetch,
                           clears, nClears >>
      /\ \A u \in syncs :
           Failed(u)
           => /\ Locks(redis') = Locks(redis)
              /\ redisGet(redis', lockKey(u.targetStore, u.item))
                   = redisGet(redis, lockKey(u.targetStore, u.item))
              /\ UNCHANGED << stock, webhooks >>
      /\ (nClears' # nClears \/ clears' # clears)
         => Locks(redis') = Locks(redis) ]_vars

\* The adapter write of the full sync of 1 to store2 has thrown: store2
\* still holds 0, no reconciliation is left, and the lock of store2's item
\* is set.
C36_Witness ==
  /\ lastCall # Null /\ ~lastCall[1].ok /\ lastCall[1].op = "set"
  /\ lastCall[1].arg = 1 /\ lastCall[1].item = 21
  /\ stock[21] = 0 /\ syncs = {} /\ nFail = 1
  /\ redisGet(redis, lockKey("store2", 21)) = <<"1">>
  /\ inventoryKey("store2", "A") \notin DOMAIN redis

\* C37 (a snapshot of 0 is a snapshot): the state store returns the
\* snapshot as a string, and "0" is truthy.  A handler that reads "0" goes
\* on with previousAvailable 0 and the delta available - 0; its timer
\* starts a delta sync of that delta when the event's value is not 0 and
\* the counterpart is enrolled, and writes nothing when it is 0, never a
\* full sync.  A delta sync that reads the target snapshot "0" stores
\* 0 + delta as the target snapshot, not the source's absolute value.
C37_ZeroSnapshotIsPresent ==
  [][ /\ \A h \in handlers :
           (h.pc = "read" /\ h \notin handlers'
              /\ redisGet(redis, inventoryKey(h.store, h.ean)) = <<"0">>)
           => \E g \in handlers' :
                /\ g.pc = "write" /\ g.store = h.store /\ g.ean = h.ean
                /\ g.available = h.available
                /\ g.previousAvailable = << 0 >> /\ g.delta = h.available
      /\ \A t \in timers :
           (Fired(t) /\ t.previousAvailable = << 0 >>)
           => IF t.available = 0
              THEN UNCHANGED << stock, webhooks, redis, syncs, lastCall, nSyncs >>
              ELSE /\ \A u \in syncs' \ syncs : u.kind = "delta" /\ u.delta = t.available
                   /\ EnrolledItems(otherStore(t.sourceStore), t.ean) # {}
                      => \E u \in syncs' :
                           /\ u.pc = "adapter" /\ u.kind = "delta"
                           /\ u.delta = t.available /\ u.sourceStore = t.sourceStore
      /\ \A u \in syncs :
           (u.pc = "read" /\ u \notin syncs'
              /\ redisGet(redis, inventoryKey(u.targetStore, u.ean)) = <<"0">>)
           => \E w \in syncs' :
                /\ w.pc = "write" /\ w.kind = "delta" /\ w.delta = u.delta
                /\ w.targetStore = u.targetStore /\ w.ean = u.ean
                /\ w.cur = <<"0">>
      /\ \A u \in syncs :
           (Completed(u) /\ u.kind = "delta" /\ u.cur = <<"0">>)
           => /\ redisGet(redis', inventoryKey(u.targetStore, u.ean)) = toString(u.delta)
              /\ parseInt(redis'[inventoryKey(u.targetStore, u.ean)]) = 0 + u.delta ]_vars

\* A delta sync of -1 (the source went from 1 to 0) has read the target
\* snapshot "0" and is about to store the target snapshot: 0 + (-1), where
\* the source's absolute value is 0.
C37_Witness ==
  \E u \in syncs :
    /\ u.pc = "write" /\ u.kind = "delta" /\ u.cur = <<"0">>
    /\ u.delta = -1 /\ u.value = 0 /\ u.previousAvailable = << 1 >>

=============================================================================
